---- MODULE Spec2Model ----
(***************************************************************************)
(* Verification model of the two programs of the repository:               *)
(*   src/main.py             Country Finder: a Tk button handler that      *)
(*                           looks a country up in a Redis cache and,      *)
(*                           on a miss, in the REST Countries API.         *)
(*   src/stock_visualizer.py Stock Visualizer: a Tk handler that starts    *)
(*                           one background thread per load, which         *)
(*                           fetches and plots.                            *)
(* The two programs share no state; CountrySpec and StockSpec run them     *)
(* separately, Spec runs both side by side, OneProgramSpec runs either.    *)
(***************************************************************************)
EXTENDS Integers, Sequences, FiniteSets, TLC

VARIABLES
    \* ---- src/main.py ----
    cache,          \* the Redis server's entries: key -> NoEntry or [value, expires_at]
    now,            \* wall-clock time, in seconds
    ticks,          \* number of clock advances so far (bounds the model)
    result_text,    \* tk.StringVar shown by result_label
    flag_label,     \* [image, text] of the flag label
    apiCalls,       \* number of country-API requests made so far
    event,          \* what the last run of fetch_country_data did, as the user sees it
    \* ---- src/stock_visualizer.py ----
    time_var,       \* selected number of days
    status_label,   \* text of the status label
    current_data,   \* self.current_data
    current_ticker, \* self.current_ticker
    ax,             \* what the axes of the figure hold: the chart
    canvas,         \* whether the FigureCanvasTkAgg showing the figure exists yet
    threads,        \* the _load_and_plot threads, in the order load_stock_data started them
    submitted,      \* ticker and days of the load started last (history)
    \* ---- both ----
    io              \* the blocking operations executed so far, with the thread that ran them

countryVars == <<cache, now, ticks, result_text, flag_label, apiCalls, event>>
stockVars == <<time_var, status_label, current_data, current_ticker,
               ax, canvas, threads, submitted>>
vars == <<countryVars, stockVars, io>>

(***************************************************************************)
(* Bounds of the model.                                                    *)
(***************************************************************************)
MaxFetches == 3
MaxTicks == 2
MaxLoads == 2
MaxPeriod == 7

(***************************************************************************)
(* src/main.py                                                              *)
(***************************************************************************)
\* cache.set(..., ex=3600): entries live for one hour
TTL == 3600

\* The clock advances by one second or by one second less than the TTL, so
\* that an entry is looked up just before, exactly at and just after its expiry.
TickSteps == {1, TTL - 1}

\* Texts the user can have typed into country_entry, as sequences of characters.
Entries == { <<>>, <<" ">>, <<" ", "f", " ">>, <<"d">> }

RECURSIVE LStrip(_)
LStrip(s) == IF s # <<>> /\ Head(s) = " " THEN LStrip(Tail(s)) ELSE s

RECURSIVE RStrip(_)
RStrip(s) == IF s # <<>> /\ s[Len(s)] = " " THEN RStrip(SubSeq(s, 1, Len(s) - 1)) ELSE s

\* str.strip()
Strip(s) == RStrip(LStrip(s))

Keys == { Strip(e) : e \in Entries } \ { <<>> }

NoName == "<no name>"
NoRecord == [name |-> NoName, population |-> 0]

\* Records the API can answer with. A record whose 'name' is missing makes
\* display_country_data raise KeyError; the two populations stand for the
\* API's data changing between two requests.
Records == { [name |-> "France", population |-> 1], [name |-> "France", population |-> 2],
             [name |-> NoName, population |-> 1] }

\* What requests.get(url) can do: raise, answer non-200, answer 200 with an
\* empty list (response.json()[0] raises IndexError), answer 200 with a record.
\* NoResponse stands for "requests.get was not called".
NoResponse == [kind |-> "none", status |-> 0, body |-> <<>>, error |-> ""]

Responses ==
    { [kind |-> "raise", status |-> 0, body |-> <<>>, error |-> e] : e \in {"timed out", "no route"} }
    \cup { [kind |-> "http", status |-> 404, body |-> <<>>, error |-> ""] }
    \cup { [kind |-> "http", status |-> 200, body |-> <<>>, error |-> ""] }
    \cup { [kind |-> "http", status |-> 200, body |-> <<r>>, error |-> ""] : r \in Records }

\* The API answered 200 with a record: line 46 yields data.
GoodResponse(resp) == resp.kind = "http" /\ resp.status = 200 /\ resp.body # <<>>

\* json.dumps / json.loads: the cache holds the text, not the record
Dumps(data) == <<"json", data>>
Loads(text) == text[2]

\* stored_at is the time of the cache.set that wrote the entry
NoEntry == [value |-> <<>>, stored_at |-> -1, expires_at |-> -1]

\* Redis: a key with a time to live is gone once the time has passed
Expired(k) == cache[k] # NoEntry /\ now > cache[k].expires_at

\* a lookup that never finds the key
CacheGetNeverHits(k) == <<>>

\* cache.get(country): the stored text, or None (here <<>>) when the key is
\* absent or expired
CacheGet(k) == IF cache[k] = NoEntry \/ Expired(k) THEN <<>> ELSE cache[k].value

\* the server's entries after a lookup of k: an expired key is removed
CacheAfterGet(k) == IF Expired(k) THEN [cache EXCEPT ![k] = NoEntry] ELSE cache

\* a cache.set whose entry outlives the hour
CacheSetNoExpiry(c, k, text) ==
    [c EXCEPT ![k] = [value |-> text, stored_at |-> now, expires_at |-> now + 100 * TTL]]

\* cache.set(country, text, ex=3600) applied to entries c
CacheSet(c, k, text) == [c EXCEPT ![k] = [value |-> text, stored_at |-> now, expires_at |-> now + TTL]]

NoFlag == [image |-> "", text |-> ""]
NoText == [Country |-> "", Population |-> 0]

\* display_country_data(data): formats the record, then loads the flag.
\* Formatting raises KeyError before result_text.set when 'name' is missing.
DisplayRaises(data) == data.name = NoName

FormatText(data) == [Country |-> data.name, Population |-> data.population]

\* A failed flag download is swallowed inside display_country_data.
FlagAfterDisplay(data, flagOk) ==
    IF flagOk THEN [flag_label EXCEPT !.image = data.name]
              ELSE [image |-> "", text |-> "[Flag not available]"]

\* clear_display(): result_text.set(""); flag_label.config(image="")
ClearedFlag == [flag_label EXCEPT !.image = ""]

\* The handlers of main.py are Tk command callbacks: they run on the thread
\* that runs root.mainloop().
UiThread == "ui"
WorkerThread == "worker"

Did(op, thread) == [op |-> op, thread |-> thread]

\* What the try block of lines 43-54 ends with: how the user sees the
\* lookup end, the server's entries, the display, and the blocking
\* operations made after requests.get.
Outcome(kind, payload, message, c, text, flag, setFailed, ops) ==
    [kind |-> kind, payload |-> payload, message |-> message, cache |-> c,
     result_text |-> text, flag_label |-> flag, setFailed |-> setFailed, ops |-> ops]

\* lines 52-54 with the message given: showerror("Error", str(e)); clear_display()
ExceptBranch(c, message, setFailed, ops) ==
    Outcome("Transient", NoRecord, message, c, NoText, ClearedFlag, setFailed, ops)

\* an except branch that shows a fixed text instead of str(e)
RequestRaisedNoMessage(c, resp) == ExceptBranch(c, "Error", FALSE, {})

\* requests.get raised (line 44): the except branch shows str(e)
RequestRaised(c, resp) == ExceptBranch(c, resp.error, FALSE, {})

\* a not-found branch that caches the empty answer
NotFoundCached(c, country) ==
    Outcome("NotFound", NoRecord, "not found", CacheSet(c, country, Dumps(NoRecord)),
            NoText, ClearedFlag, FALSE, {Did("cache.set", UiThread)})

\* lines 49-51: any status but 200: showerror("... not found."); clear_display()
NotFound(c, country) ==
    Outcome("NotFound", NoRecord, "not found", c, NoText, ClearedFlag, FALSE, {})

\* lines 46-48: status 200
Found(c, country, resp, setOk, flagOk) ==
    IF resp.body = <<>> THEN
        \* response.json()[0] raised IndexError
        ExceptBranch(c, "list index out of range", FALSE, {})
    ELSE IF ~setOk THEN
        \* cache.set raised: the record is neither cached nor displayed
        ExceptBranch(c, "redis connection error", TRUE, {Did("cache.set", UiThread)})
    ELSE IF DisplayRaises(resp.body[1]) THEN
        \* cached, then display_country_data raised KeyError
        ExceptBranch(CacheSet(c, country, Dumps(resp.body[1])), "'name'", FALSE,
                     {Did("cache.set", UiThread)})
    ELSE
        Outcome("FreshFetch", resp.body[1], "",
                CacheSet(c, country, Dumps(resp.body[1])),
                FormatText(resp.body[1]), FlagAfterDisplay(resp.body[1], flagOk), FALSE,
                {Did("cache.set", UiThread), Did("requests.get(flag)", UiThread)})

\* Lines 43-54, after a cache miss; c is the server's entries after the lookup.
MissOutcome(c, country, resp, setOk, flagOk) ==
    IF resp.kind = "raise" THEN RequestRaised(c, resp)
    ELSE IF resp.status = 200 THEN Found(c, country, resp, setOk, flagOk)
    ELSE NotFound(c, country)

\* One run of fetch_country_data: the text typed, the key looked up, how it
\* ended, and the blocking operations it made (ops).
Event(seq, raw, key, kind, payload, message, escaped, response, getFailed, setFailed, ops) ==
    [seq |-> seq, raw |-> raw, key |-> key, kind |-> kind, payload |-> payload,
     message |-> message, escaped |-> escaped, response |-> response,
     getFailed |-> getFailed, setFailed |-> setFailed, ops |-> ops]

CountryInit ==
    /\ cache = [k \in Keys |-> NoEntry]
    /\ now = 0
    /\ ticks = 0
    /\ result_text = NoText
    /\ flag_label = NoFlag
    /\ apiCalls = 0
    /\ event = Event(0, <<>>, <<>>, "None", NoRecord, "", "", NoResponse, FALSE, FALSE, {})

\* an empty-input branch that also calls clear_display(), as the error
\* branches of lines 49-54 do
InputWarningAndClear(raw) ==
    /\ Strip(raw) = <<>>
    /\ event' = Event(event.seq + 1, raw, <<>>, "InputWarning", NoRecord,
                      "Please enter a valid country", "", NoResponse, FALSE, FALSE, {})
    /\ result_text' = NoText
    /\ flag_label' = ClearedFlag
    /\ UNCHANGED <<cache, apiCalls, io>>

\* fetch_country_data(), lines 26-29: nothing typed
InputWarning(raw) ==
    /\ Strip(raw) = <<>>
    /\ event' = Event(event.seq + 1, raw, <<>>, "InputWarning", NoRecord,
                      "Please enter a valid country", "", NoResponse, FALSE, FALSE, {})
    /\ UNCHANGED <<cache, result_text, flag_label, apiCalls, io>>

\* line 34 when the Redis server cannot be reached: cache.get raises outside
\* any try block, and the exception leaves the handler
CacheGetRaises(raw) ==
    /\ Strip(raw) # <<>>
    /\ event' = Event(event.seq + 1, raw, Strip(raw), "Raised", NoRecord,
                      "", "redis.ConnectionError", NoResponse, TRUE, FALSE,
                      {Did("cache.get", UiThread)})
    /\ io' = io \cup event'.ops
    /\ UNCHANGED <<cache, result_text, flag_label, apiCalls>>

\* lines 34-39: the lookup found a live entry
CacheHitPath(raw, flagOk) ==
    LET country == Strip(raw)
        data == Loads(CacheGet(country))
    IN  /\ country # <<>>
        /\ CacheGet(country) # <<>>
        /\ cache' = CacheAfterGet(country)
        /\ UNCHANGED apiCalls
        /\ IF DisplayRaises(data)
           THEN \* display_country_data raises outside any try block
                /\ event' = Event(event.seq + 1, raw, country, "CacheHit", data,
                                  "", "KeyError", NoResponse, FALSE, FALSE,
                                  {Did("cache.get", UiThread)})
                /\ io' = io \cup event'.ops
                /\ UNCHANGED <<result_text, flag_label>>
           ELSE /\ event' = Event(event.seq + 1, raw, country, "CacheHit", data,
                                  "", "", NoResponse, FALSE, FALSE,
                                  {Did("cache.get", UiThread),
                                   Did("requests.get(flag)", UiThread)})
                /\ io' = io \cup event'.ops
                /\ result_text' = FormatText(data)
                /\ flag_label' = FlagAfterDisplay(data, flagOk)

\* lines 34-35 and 41-54: the lookup found nothing, the API is asked
CacheMissPath(raw, resp, setOk, flagOk) ==
    LET country == Strip(raw)
        out == MissOutcome(CacheAfterGet(country), country, resp, setOk, flagOk)
    IN  /\ country # <<>>
        /\ CacheGet(country) = <<>>
        /\ apiCalls' = apiCalls + 1
        /\ cache' = out.cache
        /\ result_text' = out.result_text
        /\ flag_label' = out.flag_label
        /\ event' = Event(event.seq + 1, raw, country, out.kind, out.payload,
                          out.message, "", resp, FALSE, out.setFailed,
                          {Did("cache.get", UiThread), Did("requests.get", UiThread)}
                              \cup out.ops)
        /\ io' = io \cup event'.ops

\* Whether cache.set (line 47) succeeds, when the run reaches it; a run that
\* never calls it has nothing to choose.
SetResults(resp) == IF GoodResponse(resp) THEN BOOLEAN ELSE {TRUE}

\* Whether the flag download (line 78) succeeds, when the run reaches it.
FlagResults(resp, setOk) ==
    IF GoodResponse(resp) /\ setOk /\ ~DisplayRaises(resp.body[1]) THEN BOOLEAN ELSE {TRUE}

\* The Search button: fetch_country_data() with the typed text raw, the
\* API's answer resp, and whether Redis and the flag download work.
fetch_country_data ==
    /\ event.seq < MaxFetches
    /\ \E raw \in Entries :
        \/ InputWarning(raw)
        \/ CacheGetRaises(raw)
        \/ \E flagOk \in BOOLEAN : CacheHitPath(raw, flagOk)
        \/ \E resp \in Responses : \E setOk \in SetResults(resp) :
              \E flagOk \in FlagResults(resp, setOk) :
                CacheMissPath(raw, resp, setOk, flagOk)
    /\ UNCHANGED <<now, ticks>>
    /\ UNCHANGED stockVars

\* The Clear button: clear_display()
clear_display ==
    /\ result_text' = NoText
    /\ flag_label' = ClearedFlag
    /\ UNCHANGED <<cache, now, ticks, apiCalls, event, io>>
    /\ UNCHANGED stockVars

\* Time passes.
Tick ==
    /\ ticks < MaxTicks
    /\ \E d \in TickSteps : now' = now + d
    /\ ticks' = ticks + 1
    /\ UNCHANGED <<cache, result_text, flag_label, apiCalls, event, io>>
    /\ UNCHANGED stockVars

(***************************************************************************)
(* src/stock_visualizer.py                                                  *)
(***************************************************************************)
\* self.company_names, as get_tech_companies() returned it at start-up
company_names == [t \in {"AAPL", "MSFT"} |->
                    IF t = "AAPL" THEN "Apple Inc." ELSE "Microsoft"]

\* self.time_periods, and the part of it the model's user clicks
time_periods == {7, 30, 90, 180, 365, 1825}
Periods == { d \in time_periods : d <= MaxPeriod }

\* Texts ticker_var can hold when a handler reads it, as the sequence of
\* parts that " - " separates: the placeholder set at start-up and the
\* "TICKER - Name" lines of the dropdown.
Placeholder == <<"Select a Tech Company">>
Selections == { Placeholder } \cup { <<t, company_names[t]>> : t \in DOMAIN company_names }

\* lines 268-272: selection.split(" - ")[0] when " - " occurs, else the text
TickerOf(selection) == IF Len(selection) > 1 THEN selection[1] ELSE selection[1]

NoTicker == "<None>"
NoData == [ticker |-> NoTicker, days |-> 0, empty |-> TRUE]
Blank == [ticker |-> NoTicker, days |-> 0]

Status(kind, name, detail) == [kind |-> kind, name |-> name, detail |-> detail]

\* What get_stock_data(ticker, days) can do: return rows, return an empty
\* frame, or raise.
AdapterOutcomes == {"rows", "empty", "raise"}

\* calls, renders and errors count what the thread has done so far: its calls
\* of get_stock_data, its finished chart updates, its error reports.
Thread(ticker, days) ==
    [ticker |-> ticker, days |-> days, pc |-> "start", data |-> NoData,
     error |-> "", calls |-> 0, renders |-> 0, errors |-> 0]

StockInit ==
    /\ time_var = 30
    /\ status_label = Status("initial", "", "")
    /\ current_data = NoData
    /\ current_ticker = NoTicker
    /\ ax = Blank
    /\ canvas = FALSE
    /\ threads = <<>>
    /\ submitted = Blank

\* a load_stock_data that starts a load for whatever the dropdown holds
StartLoadUnchecked(selection, days) ==
    /\ Len(threads) < MaxLoads
    /\ status_label' = Status("loading", "", "")
    /\ threads' = Append(threads, Thread(TickerOf(selection), days))
    /\ submitted' = [ticker |-> TickerOf(selection), days |-> days]

\* load_stock_data(), lines 268-281, with ticker_var holding selection and
\* time_var holding days
StartLoad(selection, days) ==
    LET ticker == TickerOf(selection) IN
    IF ticker \in DOMAIN company_names
    THEN /\ Len(threads) < MaxLoads
         /\ status_label' = Status("loading", company_names[ticker], "")
         /\ threads' = Append(threads, Thread(ticker, days))
         /\ submitted' = [ticker |-> ticker, days |-> days]
    ELSE /\ status_label' = Status("invalid", "", "")
         /\ UNCHANGED <<threads, submitted>>

\* The Load button, with the dropdown showing selection
load_stock_data ==
    /\ \E selection \in Selections : StartLoad(selection, time_var)
    /\ UNCHANGED <<time_var, current_data, current_ticker, ax, canvas, io>>
    /\ UNCHANGED countryVars

\* A period button, with the dropdown showing selection: Tk sets time_var,
\* then runs on_time_period_change()
on_time_period_change ==
    /\ \E d \in Periods, selection \in Selections :
        /\ time_var' = d
        /\ IF current_ticker # NoTicker
           THEN StartLoad(selection, d)
           ELSE UNCHANGED <<status_label, threads, submitted>>
    /\ UNCHANGED <<current_data, current_ticker, ax, canvas, io>>
    /\ UNCHANGED countryVars

At(i, pc) == i \in 1..Len(threads) /\ threads[i].pc = pc

\* except Exception as e (line 322), with str(e) = msg
\* (the handler uses e alone)
Raise(t, msg) == [Thread(NoTicker, 0) EXCEPT !.pc = "except", !.error = msg,
                                             !.calls = t.calls,
                                             !.renders = t.renders, !.errors = t.errors]

\* lines 300-313 done: what is left to do uses self alone
Plotted(t) == [Thread(NoTicker, 0) EXCEPT !.pc = "canvas", !.calls = t.calls,
                                          !.renders = t.renders, !.errors = t.errors]

\* A thread that has ended: its arguments and locals are gone; what it
\* delivered is kept.
Ended(t) == [Thread(NoTicker, 0) EXCEPT !.pc = "done", !.calls = t.calls,
                                        !.renders = t.renders, !.errors = t.errors]

\* an except branch that reports nothing
ExceptSilent(t) == Ended(t)

\* line 323 done: the error is reported, the thread ends
ExceptReport(t) == Ended([t EXCEPT !.errors = @ + 1])

\* lines 316-320 done: the chart is on screen, the thread ends
RenderDone(t) == Ended([t EXCEPT !.renders = @ + 1])

\* a failed call of get_stock_data that is made again
AdapterRaisedRetry(t) == [t EXCEPT !.pc = "start"]

\* line 292 raised: control goes to the except branch of line 322
AdapterRaised(t) == Raise(t, "fetch failed")

\* line 292: the thread calls get_stock_data
CallAdapter(i) ==
    /\ At(i, "start")
    /\ threads' = [threads EXCEPT ![i].pc = "fetching", ![i].calls = @ + 1]
    /\ io' = io \cup {Did("get_stock_data", WorkerThread)}
    /\ UNCHANGED <<time_var, status_label, current_data, current_ticker,
                   ax, canvas>>
    /\ UNCHANGED <<submitted, countryVars>>

\* line 292: get_stock_data returns or raises
AdapterReturns(i) ==
    /\ At(i, "fetching")
    /\ \E outcome \in AdapterOutcomes :
        threads' = [threads EXCEPT ![i] =
            IF outcome = "raise"
            THEN AdapterRaised(@)
            ELSE [@ EXCEPT !.pc = "set_data",
                           !.data = [ticker |-> threads[i].ticker,
                                     days |-> threads[i].days,
                                     empty |-> (outcome = "empty")]]]
    /\ UNCHANGED <<time_var, status_label, current_data, current_ticker,
                   ax, canvas, io>>
    /\ UNCHANGED <<submitted, countryVars>>

\* line 293
SetCurrentData(i) ==
    /\ At(i, "set_data")
    /\ current_data' = threads[i].data
    /\ threads' = [threads EXCEPT ![i].pc = "set_ticker"]
    /\ UNCHANGED <<time_var, status_label, current_ticker, ax, canvas, io>>
    /\ UNCHANGED <<submitted, countryVars>>

\* line 294
SetCurrentTicker(i) ==
    /\ At(i, "set_ticker")
    /\ current_ticker' = threads[i].ticker
    /\ threads' = [threads EXCEPT ![i].pc = "status"]
    /\ UNCHANGED <<time_var, status_label, current_data, ax, canvas, io>>
    /\ UNCHANGED <<submitted, countryVars>>

\* lines 296-297: data['Close'][-1] raises on an empty frame, before the
\* label is touched
SetStatus(i) ==
    /\ At(i, "status")
    /\ IF threads[i].data.empty
       THEN /\ threads' = [threads EXCEPT ![i] = Raise(@, "index out of bounds")]
            /\ UNCHANGED status_label
       ELSE /\ status_label' = Status("latest", company_names[threads[i].ticker], "")
            /\ threads' = [threads EXCEPT ![i].pc = "plot"]
    /\ UNCHANGED <<time_var, current_data, current_ticker, ax, canvas, io>>
    /\ UNCHANGED <<submitted, countryVars>>

\* lines 300-313: ax.clear(), then the plot calls, any of which may raise
Plot(i) ==
    /\ At(i, "plot")
    /\ \E ok \in BOOLEAN :
        IF ok
        THEN /\ ax' = [ticker |-> threads[i].ticker, days |-> threads[i].days]
             /\ threads' = [threads EXCEPT ![i] = Plotted(@)]
        ELSE /\ ax' = Blank
             /\ threads' = [threads EXCEPT ![i] = Raise(@, "plot failed")]
    /\ UNCHANGED <<time_var, status_label, current_data, current_ticker,
                   canvas, io>>
    /\ UNCHANGED <<submitted, countryVars>>

\* lines 316-320: the canvas is created if there is none, else redrawn;
\* either may raise
UpdateCanvas(i) ==
    /\ At(i, "canvas")
    /\ \E ok \in BOOLEAN :
        IF ok
        THEN /\ canvas' = TRUE
             /\ threads' = [threads EXCEPT ![i] = RenderDone(@)]
        ELSE /\ threads' = [threads EXCEPT ![i] = Raise(@, "draw failed")]
             /\ UNCHANGED canvas
    /\ UNCHANGED <<time_var, status_label, current_data, current_ticker,
                   ax, io>>
    /\ UNCHANGED <<submitted, countryVars>>

\* lines 322-323
Except(i) ==
    /\ At(i, "except")
    /\ status_label' = Status("error", "", threads[i].error)
    /\ threads' = [threads EXCEPT ![i] = ExceptReport(@)]
    /\ UNCHANGED <<time_var, current_data, current_ticker, ax, canvas, io>>
    /\ UNCHANGED <<submitted, countryVars>>

\* One step of the thread running _load_and_plot(ticker, days)
ThreadStep(i) ==
    \/ CallAdapter(i) \/ AdapterReturns(i) \/ SetCurrentData(i) \/ SetCurrentTicker(i)
    \/ SetStatus(i) \/ Plot(i) \/ UpdateCanvas(i) \/ Except(i)

(***************************************************************************)
(* Specifications                                                          *)
(***************************************************************************)
Init == CountryInit /\ StockInit /\ io = {}

CountryNext == fetch_country_data \/ clear_display \/ Tick

StockNext ==
    \/ load_stock_data
    \/ on_time_period_change
    \/ \E i \in 1..MaxLoads : CallAdapter(i)
    \/ \E i \in 1..MaxLoads : AdapterReturns(i)
    \/ \E i \in 1..MaxLoads : SetCurrentData(i)
    \/ \E i \in 1..MaxLoads : SetCurrentTicker(i)
    \/ \E i \in 1..MaxLoads : SetStatus(i)
    \/ \E i \in 1..MaxLoads : Plot(i)
    \/ \E i \in 1..MaxLoads : UpdateCanvas(i)
    \/ \E i \in 1..MaxLoads : Except(i)

Next == CountryNext \/ StockNext

\* A process runs one of the two programs: a step of one is taken only
\* while the other has never run.
OneProgramNext ==
    \/ StockInit /\ CountryNext
    \/ CountryInit /\ StockNext

\* Country Finder alone, Stock Visualizer alone, both side by side, and
\* either one
CountrySpec == Init /\ [][CountryNext]_vars
StockSpec == Init /\ [][StockNext]_vars
Spec == Init /\ [][Next]_vars
OneProgramSpec == Init /\ [][OneProgramNext]_vars

(***************************************************************************)
(* Claims about src/main.py                                                *)
(***************************************************************************)
\* A step of fetch_country_data that got past the empty-input check.
LookupStep == event'.seq # event.seq /\ event'.key # <<>>

\* The server holds an entry for k whose time to live has not run out.
HoldsUnexpired(k) == cache[k] # NoEntry /\ now - cache[k].stored_at < TTL

\* The server holds an entry for k that is more than TTL seconds old.
HoldsExpired(k) == cache[k] # NoEntry /\ now - cache[k].stored_at > TTL

\* C3: a lookup of a key whose unexpired entry the cache returns delivers the
\* stored payload to display_country_data as a cache hit (and shows it, when it
\* can be formatted), makes no country-API request and leaves the cache as it was.
C3_CacheHitPath ==
    [][ (LookupStep /\ ~event'.getFailed /\ HoldsUnexpired(event'.key)) =>
            /\ event'.kind = "CacheHit"
            /\ event'.payload = cache[event'.key].value[2]
            /\ event'.response = NoResponse
            /\ apiCalls' = apiCalls
            /\ cache' = cache
            /\ (event'.escaped = "" => result_text' = FormatText(event'.payload))
      ]_vars

C3_Witness ==
    /\ event.kind = "CacheHit"
    /\ event.escaped = ""
    /\ event.seq = 2
    /\ apiCalls = 1
    /\ result_text = FormatText(event.payload)
    /\ cache[event.key] # NoEntry

\* C4: when the API answers a lookup of k with a status other than 200, the
\* user is told "not found" and the cache holds no entry for k afterward; the
\* next lookup of k that reaches the cache asks the API again.
C4_NoNegativeCaching ==
    [][ /\ (LookupStep /\ event'.response.kind = "http" /\ event'.response.status # 200) =>
            /\ event'.kind = "NotFound"
            /\ event'.escaped = ""
            /\ cache'[event'.key] = NoEntry
        /\ (LookupStep /\ event.kind = "NotFound" /\ event'.key = event.key
                /\ ~event'.getFailed) =>
            /\ apiCalls' = apiCalls + 1
            /\ event'.response # NoResponse
      ]_vars

C4_Witness ==
    /\ event.kind = "NotFound"
    /\ event.response.status = 404
    /\ event.seq = 2
    /\ apiCalls = 2
    /\ cache[event.key] = NoEntry
    /\ \E k \in Keys : cache[k] # NoEntry

\* C5: when requests.get raises during a lookup of k, the handler reports a
\* transient failure that carries the exception's message, lets no exception
\* escape, and the cache holds no entry for k afterward.
C5_TransportError ==
    [][ (LookupStep /\ event'.response.kind = "raise") =>
            /\ event'.kind = "Transient"
            /\ event'.message = event'.response.error
            /\ event'.escaped = ""
            /\ cache'[event'.key] = NoEntry
      ]_vars

C5_Witness ==
    /\ event.kind = "Transient"
    /\ event.response.kind = "raise"
    /\ event.message = "timed out"
    /\ cache[event.key] = NoEntry
    /\ ticks > 0

\* C6 (as claimed): a lookup during which cache.get or cache.set fails still
\* asks the API, lets no exception escape, and ends in the outcome the API's
\* answer calls for.
C6_FailOpen ==
    (event.getFailed \/ event.setFailed) =>
        /\ event.escaped = ""
        /\ event.response # NoResponse
        /\ (GoodResponse(event.response) =>
                event.kind = "FreshFetch" /\ event.payload = event.response.body[1])
        /\ (~GoodResponse(event.response) => event.kind \in {"NotFound", "Transient"})

\* C7 (as claimed): no API request and no cache access runs on the thread
\* that handles the user's events.
C7_NoBlockingOnUiThread == \A e \in io : e.thread # UiThread

\* C8: once a lookup of k has stored payload p, every lookup of k that reaches
\* the cache less than TTL seconds later is a cache hit with exactly p and makes
\* no API request; a lookup of k that reaches the cache more than TTL seconds
\* later is not a hit and makes exactly one API request, and it is a fresh
\* fetch of the record the API answers with (when that record can be cached
\* and shown).
C8_TtlExpiry ==
    [][ /\ (LookupStep /\ ~event'.getFailed /\ HoldsUnexpired(event'.key)) =>
            /\ event'.kind = "CacheHit"
            /\ event'.payload = cache[event'.key].value[2]
            /\ apiCalls' = apiCalls
        /\ (LookupStep /\ ~event'.getFailed /\ HoldsExpired(event'.key)) =>
            /\ event'.kind # "CacheHit"
            /\ apiCalls' = apiCalls + 1
            /\ (GoodResponse(event'.response) /\ ~event'.setFailed
                    /\ ~DisplayRaises(event'.response.body[1])) =>
                  /\ event'.kind = "FreshFetch"
                  /\ event'.payload = event'.response.body[1]
                  /\ cache'[event'.key].stored_at = now
      ]_vars

\* the third lookup fetches afresh, for the second time, a key whose entry
\* has run out
C8_Witness ==
    /\ event.kind = "FreshFetch"
    /\ event.seq = 3
    /\ apiCalls = 2
    /\ now > TTL
    /\ cache[event.key].stored_at = now

\* The last lookup put its record on screen, and the record is still there.
Displayed(k) ==
    /\ event.key = k
    /\ event.kind \in {"CacheHit", "FreshFetch"}
    /\ event.escaped = ""
    /\ result_text = FormatText(event.payload)

\* A step of the Clear button that empties a display showing something.
ClearStep == event' = event /\ now' = now /\ result_text # NoText /\ result_text' = NoText

\* C11 (as claimed): after the Clear button is pressed while the record of k
\* is displayed, the cache holds no entry for k.
C11_ManualClearInvalidates ==
    [][ \A k \in Keys : (ClearStep /\ Displayed(k)) => cache'[k] = NoEntry ]_vars

\* The typed text is empty or consists of spaces only.
AllBlank(s) == \A i \in 1..Len(s) : s[i] = " "

\* C16: a run of the Search handler on an empty or all-blank text only shows
\* the input warning: it performs no blocking operation (no cache read or
\* write, no API request), changes no cache entry and leaves the displayed
\* result and flag as they were.
C16_EmptyKeyRejection ==
    [][ (event'.seq # event.seq /\ AllBlank(event'.raw)) =>
            /\ event'.kind = "InputWarning"
            /\ event'.ops = {}
            /\ event'.response = NoResponse
            /\ ~event'.getFailed /\ ~event'.setFailed
            /\ io' = io
            /\ apiCalls' = apiCalls
            /\ cache' = cache
            /\ result_text' = result_text
            /\ flag_label' = flag_label
      ]_vars

\* blanks were searched while a fetched record was on screen: the record
\* is still shown and still cached
C16_Witness ==
    /\ event.kind = "InputWarning"
    /\ event.raw = <<" ">>
    /\ event.seq = 2
    /\ apiCalls = 1
    /\ result_text # NoText
    /\ \E k \in Keys : cache[k] # NoEntry

\* C13 (as claimed): after a lookup that missed the cache and asked the API,
\* the cache holds an entry for the key exactly when the lookup ended by
\* displaying the record; a lookup that ended by reporting an error left none.
C13_PopulationWithDelivery ==
    (event.response # NoResponse /\ event.escaped = "") =>
        /\ (cache[event.key] # NoEntry <=> event.kind = "FreshFetch")
        /\ (event.kind \in {"NotFound", "Transient"} => cache[event.key] = NoEntry)

(***************************************************************************)
(* Claims about src/stock_visualizer.py                                    *)
(***************************************************************************)
Started == 1..Len(threads)

AllDone == \A i \in Started : threads[i].pc = "done"

\* The call of get_stock_data made by thread i has not returned yet.
Outstanding(i) == threads[i].pc = "fetching"

\* Thread i has itself assigned self.current_data (line 293) and has not
\* finished the steps that change what the window shows (lines 294-320).
InRender(i) == threads[i].pc \in {"set_ticker", "status", "plot", "canvas"}

\* C1 (as claimed): no two calls of get_stock_data for the same ticker and
\* period are outstanding at once.
C1_SingleFlight ==
    \A i, j \in Started :
        (i # j /\ Outstanding(i) /\ Outstanding(j)) =>
            <<threads[i].ticker, threads[i].days>> # <<threads[j].ticker, threads[j].days>>

\* C2 (as claimed): when every load has finished with a chart on screen, the
\* window shows the load submitted last: chart, status label, current_data
\* and current_ticker are those of that load.
C2_Supersession ==
    (Len(threads) >= 2 /\ AllDone /\ \A i \in Started : threads[i].renders = 1) =>
        /\ current_ticker = submitted.ticker
        /\ current_data = [ticker |-> submitted.ticker, days |-> submitted.days,
                           empty |-> FALSE]
        /\ ax = submitted
        /\ status_label = Status("latest", company_names[submitted.ticker], "")

C10_DeliveryContext ==
    /\ \A i \in Started : ~InRender(i)
    /\ \A i, j \in Started : i # j => ~(InRender(i) /\ InRender(j))

\* Every load started so far has ended by reporting "Error loading data".
AllFailed ==
    /\ Len(threads) >= 1
    /\ \A i \in Started : threads[i].pc = "done" /\ threads[i].errors = 1

\* C14 (as claimed): a load that ends by reporting an error leaves
\* current_data and current_ticker as they were when it started; so while
\* every load so far has failed, both are still None.
C14_StateUnchangedOnFailure ==
    AllFailed => (current_data = NoData /\ current_ticker = NoTicker)

\* C15 (as claimed): whenever no load is running, current_data is the data
\* that was fetched for current_ticker, or both are None.
C15_SharedStateConsistency ==
    AllDone => current_data.ticker = current_ticker

\* Thread i has its arguments and has not got the adapter's answer yet.
BeforeAnswer(t) == t.pc \in {"start", "fetching"}

\* C17: a thread that is about to call, or is calling, get_stock_data holds
\* a ticker that is a key of company_names; it got its period from time_var
\* when the handler started it, and ticker and period stay as they were until
\* the call; a run of load_stock_data on a selection whose ticker is not a
\* key starts no thread, makes no adapter call and leaves current_data and
\* current_ticker alone; current_ticker is always None or a key.
C17_ValidatedSubmission ==
    [][ /\ \A i \in 1..Len(threads') :
              BeforeAnswer(threads'[i]) =>
                /\ threads'[i].ticker \in DOMAIN company_names
                /\ IF i <= Len(threads)
                   THEN /\ threads'[i].ticker = threads[i].ticker
                        /\ threads'[i].days = threads[i].days
                   ELSE threads'[i].days = time_var'
        /\ \A sel \in Selections :
              (sel[1] \notin DOMAIN company_names /\ StartLoad(sel, time_var')) =>
                /\ threads' = threads
                /\ io' = io
                /\ current_data' = current_data
                /\ current_ticker' = current_ticker
        /\ current_ticker' \in {NoTicker} \cup DOMAIN company_names
      ]_vars

\* after a finished AAPL load a period click has started a 7-day load, whose
\* call is under way, and a press of Load on the placeholder was turned down
C17_Witness ==
    /\ status_label.kind = "invalid"
    /\ Len(threads) = 2
    /\ threads[1].pc = "done"
    /\ threads[2].pc = "fetching" /\ threads[2].days = 7 /\ threads[2].ticker = "MSFT"
    /\ time_var = 7
    /\ current_ticker = "AAPL"

(***************************************************************************)
(* Claims about both programs                                              *)
(***************************************************************************)
\* C12: the count of country-API requests changes only in a step of the
\* Search handler, and then by exactly one; a load thread calls
\* get_stock_data at most once and never again after it failed or ended;
\* load threads are started only by the handler that shows "Loading...",
\* one at a time, and starting one leaves the earlier threads as they were.
C12_NoAutomaticRetry ==
    [][ /\ apiCalls' # apiCalls =>
              (event'.seq = event.seq + 1 /\ apiCalls' = apiCalls + 1)
        /\ \A i \in 1..Len(threads') : threads'[i].calls <= 1
        /\ \A i \in 1..Len(threads) :
              threads[i].pc \in {"except", "done"} => threads'[i].calls = threads[i].calls
        /\ Len(threads') # Len(threads) =>
              /\ Len(threads') = Len(threads) + 1
              /\ SubSeq(threads', 1, Len(threads)) = threads
              /\ status_label'.kind = "loading"
      ]_vars

\* the first load failed in get_stock_data, called once, and reported it;
\* the user has pressed Load again and the second load's one call is under way
C12_Witness ==
    /\ Len(threads) = 2
    /\ threads[1].pc = "done" /\ threads[1].errors = 1 /\ threads[1].calls = 1
    /\ threads[2].pc = "fetching" /\ threads[2].calls = 1
    /\ ax = Blank
====
